---------------------------- MODULE Spec2Model ----------------------------
(***************************************************************************)
(* The Money datatype of sporkbytes/Money (src/src/index.ts).              *)
(*                                                                         *)
(* A Money object holds one field, `amount`, an IEEE-754 double.  Every    *)
(* arithmetic method turns both operands into integers with the template   *)
(* `${num}e6`, combines them, checks the combination against the safe      *)
(* integer range and builds the result from the template `${n}e-6`.        *)
(*                                                                         *)
(* The model keeps doubles exact: a finite double is sign * m * 2^e with   *)
(* m an arbitrary-size natural number, and the conversions between         *)
(* decimal text and doubles (parseFloat, Number(), Number::toString) are   *)
(* computed with correct rounding, as the ECMAScript language defines      *)
(* them.                                                                   *)
(***************************************************************************)
EXTENDS Integers, Sequences, FiniteSets, TLC

(***************************************************************************)
(* Natural numbers of any size: little-endian sequences of limbs in        *)
(* 0..BASE-1 without high zero limbs; <<>> is zero.  (TLC's own integers   *)
(* are 32 bits wide and cannot hold 2^53.)                                 *)
(***************************************************************************)
BASE == 10000

Max(x, y) == IF x >= y THEN x ELSE y

Min(x, y) == IF x <= y THEN x ELSE y

Limb(a, i) == IF i <= Len(a) THEN a[i] ELSE 0

RECURSIVE BNorm(_)
BNorm(a) ==
    IF a = <<>> THEN <<>>
    ELSE IF a[Len(a)] = 0 THEN BNorm(SubSeq(a, 1, Len(a) - 1))
    ELSE a

RECURSIVE BFromNat(_)
BFromNat(n) == IF n = 0 THEN <<>> ELSE <<n % BASE>> \o BFromNat(n \div BASE)

RECURSIVE BCmpFrom(_, _, _)
BCmpFrom(a, b, i) ==
    IF i = 0 THEN 0
    ELSE IF a[i] < b[i] THEN -1
    ELSE IF a[i] > b[i] THEN 1
    ELSE BCmpFrom(a, b, i - 1)

\* -1, 0 or 1 as a < b, a = b, a > b
BCmp(a, b) ==
    IF Len(a) < Len(b) THEN -1
    ELSE IF Len(a) > Len(b) THEN 1
    ELSE BCmpFrom(a, b, Len(a))

BLt(a, b) == BCmp(a, b) < 0

RECURSIVE BAddFrom(_, _, _, _)
BAddFrom(a, b, i, c) ==
    IF i > Len(a) /\ i > Len(b)
    THEN (IF c = 0 THEN <<>> ELSE <<c>>)
    ELSE LET s == Limb(a, i) + Limb(b, i) + c
         IN  <<s % BASE>> \o BAddFrom(a, b, i + 1, s \div BASE)

BAdd(a, b) == BAddFrom(a, b, 1, 0)

RECURSIVE BSubFrom(_, _, _, _)
BSubFrom(a, b, i, c) ==
    IF i > Len(a) THEN <<>>
    ELSE LET s == a[i] - Limb(b, i) - c
         IN  IF s < 0 THEN <<s + BASE>> \o BSubFrom(a, b, i + 1, 1)
             ELSE <<s>> \o BSubFrom(a, b, i + 1, 0)

\* a - b for a >= b
BSub(a, b) == BNorm(BSubFrom(a, b, 1, 0))

RECURSIVE BMulSmallFrom(_, _, _, _)
BMulSmallFrom(a, k, i, c) ==
    IF i > Len(a) THEN BFromNat(c)
    ELSE LET s == a[i] * k + c
         IN  <<s % BASE>> \o BMulSmallFrom(a, k, i + 1, s \div BASE)

\* a * k for 0 <= k <= 200000
BMulSmall(a, k) == IF k = 0 THEN <<>> ELSE BMulSmallFrom(a, k, 1, 0)

\* a * BASE^n
BShl(a, n) == IF a = <<>> THEN <<>> ELSE [i \in 1..n |-> 0] \o a

\* a div BASE^n
BShr(a, n) == IF n >= Len(a) THEN <<>> ELSE SubSeq(a, n + 1, Len(a))

\* a mod BASE^n
BLow(a, n) == BNorm(SubSeq(a, 1, Min(n, Len(a))))

\* the sum of a[i] * b[k + 1 - i] for i in lo..hi: column k of the long multiplication
RECURSIVE Column(_, _, _, _, _)
Column(a, b, k, lo, hi) ==
    IF lo > hi THEN 0 ELSE a[lo] * b[k + 1 - lo] + Column(a, b, k, lo + 1, hi)

RECURSIVE Carry(_, _, _)
Carry(cols, i, c) ==
    IF i > Len(cols) THEN BFromNat(c)
    ELSE LET s == cols[i] + c
         IN  <<s % BASE>> \o Carry(cols, i + 1, s \div BASE)

\* a * b, for a shorter factor of at most 20 limbs (a column sum stays below 2^31)
BMul(a, b) ==
    IF a = <<>> \/ b = <<>> THEN <<>>
    ELSE Carry([k \in 1..(Len(a) + Len(b) - 1) |->
                   Column(a, b, k, Max(1, k + 1 - Len(b)), Min(Len(a), k))], 1, 0)

RECURSIVE BDivSmallFrom(_, _, _, _)
BDivSmallFrom(a, k, i, r) ==
    IF i = 0 THEN [q |-> <<>>, r |-> r]
    ELSE LET cur == r * BASE + a[i]
             rest == BDivSmallFrom(a, k, i - 1, cur % k)
         IN  [q |-> rest.q \o <<cur \div k>>, r |-> rest.r]

\* quotient and remainder of a by k, for 1 <= k <= 200000
BDivSmallNorm(d) == [q |-> BNorm(d.q), r |-> d.r]

BDivSmall(a, k) == BDivSmallNorm(BDivSmallFrom(a, k, Len(a), 0))

RECURSIVE IPow(_, _)
IPow(b, n) == IF n = 0 THEN 1 ELSE b * IPow(b, n - 1)

\* a * 10^k
BMulPow10(a, k) == BShl(BMulSmall(a, IPow(10, k % 4)), k \div 4)

\* quotient of a by 10^k, and whether the division left no remainder
BDivPow10Of(a, k, d) == [q |-> d.q, exact |-> d.r = 0 /\ BLow(a, k \div 4) = <<>>]

BDivPow10(a, k) == BDivPow10Of(a, k, BDivSmall(BShr(a, k \div 4), IPow(10, k % 4)))


\* <<b^0, b^1, ..., b^n>>, built on acc
RECURSIVE PowTab(_, _, _)
PowTab(b, n, acc) ==
    IF Len(acc) > n THEN acc
    ELSE PowTab(b, n, Append(acc, BMulSmall(acc[Len(acc)], b)))

Pow2Tab == PowTab(2, 128, << <<1>> >>)

Pow5Tab == PowTab(5, 128, << <<1>> >>)

RECURSIVE Pow2(_)
Pow2(n) == IF n <= 128 THEN Pow2Tab[n + 1] ELSE BMul(Pow2(n - 128), Pow2Tab[129])

RECURSIVE Pow5(_)
Pow5(n) == IF n <= 128 THEN Pow5Tab[n + 1] ELSE BMul(Pow5(n - 128), Pow5Tab[129])

RECURSIVE SmallBitLen(_)
SmallBitLen(n) == IF n = 0 THEN 0 ELSE 1 + SmallBitLen(n \div 2)

RECURSIVE BitLenFrom(_, _)
BitLenFrom(a, n) == IF BLt(a, Pow2(n)) THEN n ELSE BitLenFrom(a, n + 1)

\* the number of binary digits of a: the least n with a < 2^n
BitLen(a) ==
    IF a = <<>> THEN 0
    ELSE BitLenFrom(a, ((Len(a) - 1) * 132877) \div 10000 + SmallBitLen(a[Len(a)]))

\* a div 2^s
RECURSIVE BShrBits(_, _)
BShrBits(a, s) ==
    IF s = 0 \/ a = <<>> THEN a
    ELSE IF s >= 17 THEN BShrBits(BDivSmall(a, 131072).q, s - 17)
    ELSE BDivSmall(a, IPow(2, s)).q

BIsOdd(a) == a # <<>> /\ a[1] % 2 = 1

(***************************************************************************)
(* IEEE-754 binary64 values.  A finite double is (-1)^neg * m * 2^e, kept  *)
(* canonical (m odd, or m = 0 and e = 0) so that equal doubles are equal   *)
(* records.  A double has at most PrecisionBits significant bits and no    *)
(* bit below 2^MinExp; a magnitude of 2^MaxExp or more is Infinity.        *)
(***************************************************************************)
PrecisionBits == 53

MinExp == -1074

MaxExp == 1024

NaN == [k |-> "nan", neg |-> FALSE, m |-> <<>>, e |-> 0]

Infinity(neg) == [k |-> "inf", neg |-> neg, m |-> <<>>, e |-> 0]

Zero(neg) == [k |-> "num", neg |-> neg, m |-> <<>>, e |-> 0]

IsNum(x) == x.k = "num"

RECURSIVE StripZeros(_, _)
StripZeros(m, e) ==
    IF m[1] % 2 = 1 THEN [m |-> m, e |-> e]
    ELSE LET t == IF m[1] % 16 = 0 THEN 4
                  ELSE IF m[1] % 8 = 0 THEN 3
                  ELSE IF m[1] % 4 = 0 THEN 2 ELSE 1
         IN  StripZeros(BDivSmall(m, IPow(2, t)).q, e + t)

\* the double of the exact value (-1)^neg * m * 2^e, m within PrecisionBits
Canonical(neg, c) == [k |-> "num", neg |-> neg, m |-> c.m, e |-> c.e]

Finite(neg, m, e) ==
    IF m = <<>> THEN Zero(neg)
    ELSE IF BitLen(m) + e > MaxExp THEN Infinity(neg)
    ELSE Canonical(neg, StripZeros(m, e))

(***************************************************************************)
(* Round to nearest, ties to even: the double nearest to                   *)
(* (-1)^neg * (Q + f) * 2^E, where 0 <= f < 1 and sticky says f > 0.       *)
(* A caller that passes sticky passes a Q of more than PrecisionBits bits. *)
(***************************************************************************)
\* c compares the bits dropped with half a unit in the last place kept
RoundUp(q, c, sticky) == c > 0 \/ (c = 0 /\ (sticky \/ BIsOdd(q)))

\* q = Q div 2^s
RoundShifted(neg, Q, E, sticky, s, q) ==
    Finite(neg,
           IF s > 0 /\ RoundUp(q, BCmp(BSub(Q, BMul(q, Pow2(s))), Pow2(s - 1)), sticky)
           THEN BAdd(q, <<1>>) ELSE q,
           E + s)

RoundShift(neg, Q, E, sticky, s) == RoundShifted(neg, Q, E, sticky, s, BShrBits(Q, s))

RoundToDouble(neg, Q, E, sticky) ==
    RoundShift(neg, Q, E, sticky, Max(0, Max(BitLen(Q) - PrecisionBits, MinExp - E)))

\* the natural number |x| of an integer-valued finite double with e >= 0
IntMagnitude(x) == BMul(x.m, Pow2(x.e))

IsInteger(x) == IsNum(x) /\ x.e >= 0

(***************************************************************************)
(* The double nearest to the decimal (-1)^neg * D * 10^x: what reading a   *)
(* decimal numeral yields (ECMAScript StringToNumber / parseFloat round    *)
(* the mathematical value of the numeral to the nearest double).           *)
(***************************************************************************)
DecimalQuotient(s, d) == [q |-> d.q, e |-> -s, sticky |-> ~d.exact]

DecimalScaled(D, k, s) == DecimalQuotient(s, BDivPow10(BMul(D, Pow2(s)), k))

\* D / 10^k, shifted so that the quotient has at least PrecisionBits + 2 bits
DecimalFraction(D, k) ==
    DecimalScaled(D, k, Max(0, PrecisionBits + 3 + BitLen(BMulPow10(<<1>>, k)) - BitLen(D)))

RoundScaled(neg, d) == RoundToDouble(neg, d.q, d.e, d.sticky)

DecimalToDouble(neg, D, x) ==
    IF D = <<>> THEN Zero(neg)
    ELSE IF x >= 0 /\ Len(D) * 4 + x > 320 THEN Infinity(neg)
    ELSE IF x < 0 /\ Len(D) * 4 + x < -330 THEN Zero(neg)
    ELSE RoundScaled(neg, IF x >= 0 THEN [q |-> BMulPow10(D, x), e |-> 0, sticky |-> FALSE]
                          ELSE DecimalFraction(D, -x))

(***************************************************************************)
(* Text is a sequence of one-character strings.                            *)
(***************************************************************************)
DigitChars == <<"0", "1", "2", "3", "4", "5", "6", "7", "8", "9">>

IsDigit(c) == c \in {"0", "1", "2", "3", "4", "5", "6", "7", "8", "9"}

DigitVal(c) == CHOOSE d \in 0..9 : DigitChars[d + 1] = c

IsWhiteSpace(c) == c \in {" ", "\t", "\n", "\r"}

RECURSIVE Zeros(_)
Zeros(n) == IF n <= 0 THEN <<>> ELSE <<"0">> \o Zeros(n - 1)

\* the decimal digits of a small natural number, at least one
RECURSIVE NatToText(_)
NatToText(n) ==
    IF n < 10 THEN <<DigitChars[n + 1]>>
    ELSE NatToText(n \div 10) \o <<DigitChars[(n % 10) + 1]>>

LimbText(l) ==
    <<DigitChars[(l \div 1000) + 1], DigitChars[((l \div 100) % 10) + 1],
      DigitChars[((l \div 10) % 10) + 1], DigitChars[(l % 10) + 1]>>

RECURSIVE BToTextFrom(_, _)
BToTextFrom(a, i) == IF i = 0 THEN <<>> ELSE LimbText(a[i]) \o BToTextFrom(a, i - 1)

\* the decimal digits of a, most significant first ("0" for zero)
BToText(a) ==
    IF a = <<>> THEN <<"0">>
    ELSE NatToText(a[Len(a)]) \o BToTextFrom(a, Len(a) - 1)

\* the number of decimal digits of a
NDigits(a) == IF a = <<>> THEN 1 ELSE 4 * (Len(a) - 1) + Len(NatToText(a[Len(a)]))

\* the value of at most four digit characters
RECURSIVE SmallVal(_, _)
SmallVal(t, acc) == IF t = <<>> THEN acc ELSE SmallVal(Tail(t), 10 * acc + DigitVal(t[1]))

RECURSIVE DigitsToLimbs(_, _)
DigitsToLimbs(t, hi) ==
    IF hi <= 0 THEN <<>>
    ELSE <<SmallVal(SubSeq(t, Max(1, hi - 3), hi), 0)>> \o DigitsToLimbs(t, hi - 4)

\* the natural number written by the digit characters t
TextToB(t) == BNorm(DigitsToLimbs(t, Len(t)))

(***************************************************************************)
(* Number::toString(x), radix 10 (ECMAScript 6.1.6.1.20): the digits s     *)
(* (k of them, as few as possible) and the exponent n with                 *)
(* s * 10^(n-k) reading back as x, laid out as plain digits for            *)
(* -6 < n <= 21 and in exponent notation otherwise.                        *)
(***************************************************************************)
\* q, the integer nearest to VV / 10^d, kept within lo..hi
Clamp(near, lo, hi) == IF BLt(near, lo) THEN lo ELSE IF BLt(hi, near) THEN hi ELSE near

\* f = VV div 10^d; c compares twice the remainder with 10^d
NearestPick(f, c, lo, hi) ==
    Clamp(IF c < 0 \/ (c = 0 /\ ~BIsOdd(f)) THEN f ELSE BAdd(f, <<1>>), lo, hi)

NearestFloor(VV, d, lo, hi, f) ==
    NearestPick(f, BCmp(BMulSmall(BSub(VV, BMulPow10(f, d)), 2), BMulPow10(<<1>>, d)), lo, hi)

NearestWithin(VV, d, lo, hi) == NearestFloor(VV, d, lo, hi, BDivPow10(VV, d).q)

RECURSIVE ShortestFrom(_, _, _, _, _)

\* qLo..qHi: the d-digit-shorter numerals strictly (or, with incl, weakly) between Lo and Hi
ShortestWithin(Lo, VV, Hi, incl, d, qLo, qHi) ==
    IF ~BLt(qHi, qLo) THEN [q |-> NearestWithin(VV, d, qLo, qHi), d |-> d]
    ELSE ShortestFrom(Lo, VV, Hi, incl, d - 1)

ShortestBounds(Lo, VV, Hi, incl, d, l, h) ==
    ShortestWithin(Lo, VV, Hi, incl, d,
                   IF l.exact /\ incl THEN l.q ELSE BAdd(l.q, <<1>>),
                   IF h.exact /\ ~incl THEN BSub(h.q, <<1>>) ELSE h.q)

ShortestFrom(Lo, VV, Hi, incl, d) ==
    IF d = 0 THEN [q |-> VV, d |-> 0]
    ELSE ShortestBounds(Lo, VV, Hi, incl, d, BDivPow10(Lo, d), BDivPow10(Hi, d))

\* the digits s and the exponent n of a finite, nonzero double x
\* the digits of r.q, and the exponent n: r.q * 10^r.d quarter units read back as x
DigitsFound(U, r) == [s |-> BToText(r.q), n |-> NDigits(r.q) + r.d + Min(U, 0)]

DigitsBetween(U, t, Lo, V, Hi) ==
    DigitsFound(U, ShortestFrom(Lo, V, Hi, t >= 1, NDigits(Hi) - 1))

\* the midpoints to the neighbouring doubles lie two units away (one unit
\* below a power of two, where the doubles are twice as dense)
DigitsScaled(x, U, t, sc, V) ==
    DigitsBetween(U, t,
                  BSub(V, IF x.m = <<1>> /\ x.e - t > MinExp THEN sc ELSE BMulSmall(sc, 2)),
                  V,
                  BAdd(V, BMulSmall(sc, 2)))

\* quarter units in the last place are 2^U, or 10^U for U < 0; x is 4 * m * 2^t of them
DigitsUnits(x, U, t, sc) == DigitsScaled(x, U, t, sc, BMul(BMul(x.m, Pow2(t + 2)), sc))

DigitsPlace(x, t) ==
    DigitsUnits(x, x.e - t - 2, t,
                IF x.e - t - 2 >= 0 THEN Pow2(x.e - t - 2) ELSE Pow5(t + 2 - x.e))

ShortestDigits(x) == DigitsPlace(x, Min(PrecisionBits - BitLen(x.m), x.e - MinExp))

Sign(x) == IF x.neg THEN <<"-">> ELSE <<>>

ExponentPart(n) ==
    <<"e">> \o (IF n < 1 THEN <<"-">> ELSE <<"+">>) \o NatToText(IF n < 1 THEN 1 - n ELSE n - 1)

Layout(s, k, n) ==
    IF k <= n /\ n <= 21 THEN s \o Zeros(n - k)
    ELSE IF 0 < n /\ n <= 21 THEN SubSeq(s, 1, n) \o <<".">> \o SubSeq(s, n + 1, k)
    ELSE IF -6 < n /\ n <= 0 THEN <<"0", ".">> \o Zeros(-n) \o s
    ELSE (IF k = 1 THEN s ELSE <<s[1], ".">> \o SubSeq(s, 2, k)) \o ExponentPart(n)

LayoutDigits(sd) == Layout(sd.s, Len(sd.s), sd.n)

NumberToString(x) ==
    IF x.k = "nan" THEN <<"N", "a", "N">>
    ELSE IF x.k = "inf" THEN Sign(x) \o <<"I", "n", "f", "i", "n", "i", "t", "y">>
    ELSE IF x.m = <<>> THEN <<"0">>
    ELSE Sign(x) \o LayoutDigits(ShortestDigits(x))

(***************************************************************************)
(* Reading a StrDecimalLiteral (ECMAScript 7.1.4.1) that starts at         *)
(* position i of text t: an optional sign, then Infinity or decimal        *)
(* digits with an optional fraction and an optional exponent.              *)
(***************************************************************************)
RECURSIVE ScanDigits(_, _)
ScanDigits(t, i) ==
    IF i <= Len(t) /\ IsDigit(t[i]) THEN ScanDigits(t, i + 1) ELSE i

RECURSIVE SkipWhiteSpace(_, _)
SkipWhiteSpace(t, i) ==
    IF i <= Len(t) /\ IsWhiteSpace(t[i]) THEN SkipWhiteSpace(t, i + 1) ELSE i

RECURSIVE TrimEnd(_)
TrimEnd(t) ==
    IF t # <<>> /\ IsWhiteSpace(t[Len(t)]) THEN TrimEnd(SubSeq(t, 1, Len(t) - 1)) ELSE t

At(t, i) == IF 1 <= i /\ i <= Len(t) THEN t[i] ELSE ""

StartsWith(t, i, w) == \A j \in 1..Len(w) : At(t, i + j - 1) = w[j]

\* the exponent a run of digits writes, capped where every double is 0 or Infinity
ExponentVal(t) == IF Len(t) > 4 THEN 9999 ELSE SmallVal(t, 0)

\* ok: a literal was read; val: its double; end: the position after it
\* the position after an optional sign at position i
SignEnd(t, i) == IF At(t, i) \in {"+", "-"} THEN i + 1 ELSE i

\* int, frac: the digits before and after the point; iFrac: the position
\* after them; iExp..iEnd-1: the digits of the exponent, if any
ReadLiteral(t, i, int, frac, iFrac, iExp, iEnd) ==
    IF int = <<>> /\ frac = <<>> THEN [ok |-> FALSE, val |-> NaN, end |-> i]
    ELSE [ok  |-> TRUE,
          val |-> DecimalToDouble(At(t, i) = "-", TextToB(int \o frac),
                      (IF iEnd = iExp THEN 0
                       ELSE IF At(t, iFrac + 1) = "-"
                            THEN -ExponentVal(SubSeq(t, iExp, iEnd - 1))
                            ELSE ExponentVal(SubSeq(t, iExp, iEnd - 1)))
                      - Len(frac)),
          end |-> IF iEnd = iExp THEN iFrac ELSE iEnd]

ScanExponent(t, i, int, frac, iFrac, iExp) ==
    ReadLiteral(t, i, int, frac, iFrac, iExp,
                IF At(t, iFrac) \in {"e", "E"} THEN ScanDigits(t, iExp) ELSE iExp)

ScanFraction(t, i, i1, iInt, iFrac) ==
    ScanExponent(t, i, SubSeq(t, i1, iInt - 1),
                 IF At(t, iInt) = "." THEN SubSeq(t, iInt + 1, iFrac - 1) ELSE <<>>,
                 iFrac, SignEnd(t, iFrac + 1))

ScanInteger(t, i, i1, iInt) ==
    ScanFraction(t, i, i1, iInt, IF At(t, iInt) = "." THEN ScanDigits(t, iInt + 1) ELSE iInt)

ScanSigned(t, i, i1) ==
    IF StartsWith(t, i1, <<"I", "n", "f", "i", "n", "i", "t", "y">>)
    THEN [ok |-> TRUE, val |-> Infinity(At(t, i) = "-"), end |-> i1 + 8]
    ELSE ScanInteger(t, i, i1, ScanDigits(t, i1))

ScanDecimalLiteral(t, i) == ScanSigned(t, i, SignEnd(t, i))

\* parseFloat(string): the longest decimal literal the trimmed text starts with
parseFloat(t) == ScanDecimalLiteral(t, SkipWhiteSpace(t, 1)).val

\* Number(string): the whole trimmed text must be a decimal literal
WholeLiteral(u, r) == IF r.ok /\ r.end = Len(u) + 1 THEN r.val ELSE NaN

NumberFrom(u, i) == IF i > Len(u) THEN Zero(FALSE) ELSE WholeLiteral(u, ScanDecimalLiteral(u, i))

TrimmedNumber(u) == NumberFrom(u, SkipWhiteSpace(u, 1))

StringToNumber(t) == TrimmedNumber(TrimEnd(t))

isNaN(x) == x.k = "nan"

(***************************************************************************)
(* Arithmetic on doubles: the exact result, rounded to the nearest double. *)
(***************************************************************************)
FNeg(x) == IF isNaN(x) THEN x ELSE [x EXCEPT !.neg = ~x.neg]

\* x + y
\* |x| in units of 2^lo, for lo <= x.e
Aligned(x, lo) == BMul(x.m, Pow2(x.e - lo))

AlignedSum(x, y, X, Y) ==
    IF x.neg # y.neg /\ X = Y THEN Zero(FALSE)
    ELSE RoundToDouble(IF x.neg = y.neg \/ BLt(Y, X) THEN x.neg ELSE y.neg,
                       IF x.neg = y.neg THEN BAdd(X, Y)
                       ELSE IF BLt(Y, X) THEN BSub(X, Y) ELSE BSub(Y, X),
                       Min(x.e, y.e), FALSE)

FAdd(x, y) ==
    IF isNaN(x) \/ isNaN(y) THEN NaN
    ELSE IF x.k = "inf" THEN (IF y.k = "inf" /\ y.neg # x.neg THEN NaN ELSE x)
    ELSE IF y.k = "inf" THEN y
    ELSE AlignedSum(x, y, Aligned(x, Min(x.e, y.e)), Aligned(y, Min(x.e, y.e)))

\* x - y
FSub(x, y) == FAdd(x, FNeg(y))

\* x * y
FMul(x, y) ==
    IF isNaN(x) \/ isNaN(y) THEN NaN
    ELSE IF x.k = "inf" \/ y.k = "inf" THEN
        (IF (IsNum(x) /\ x.m = <<>>) \/ (IsNum(y) /\ y.m = <<>>) THEN NaN
         ELSE Infinity(x.neg # y.neg))
    ELSE RoundToDouble(x.neg # y.neg, BMul(x.m, y.m), x.e + y.e, FALSE)

\* x / y for a finite, nonzero y whose odd part is below BASE (100 = 25 * 2^2)
Quotient(x, y, s, d) == RoundToDouble(x.neg # y.neg, d.q, x.e - y.e - s, d.r # 0)

ScaledQuotient(x, y, s) == Quotient(x, y, s, BDivSmall(BMul(x.m, Pow2(s)), y.m[1]))

FDiv(x, y) ==
    IF isNaN(x) THEN NaN
    ELSE IF x.k = "inf" THEN Infinity(x.neg # y.neg)
    ELSE IF x.m = <<>> THEN Zero(x.neg # y.neg)
    ELSE ScaledQuotient(x, y, Max(0, PrecisionBits + 3 + BitLen(y.m) - BitLen(x.m)))

\* x < y
AlignedLess(x, y, X, Y) ==
    IF x.neg /\ ~y.neg THEN X # <<>> \/ Y # <<>>
    ELSE IF ~x.neg /\ y.neg THEN FALSE
    ELSE IF x.neg THEN BLt(Y, X)
    ELSE BLt(X, Y)

FLt(x, y) ==
    IF isNaN(x) \/ isNaN(y) THEN FALSE
    ELSE IF x.k = "inf" THEN x.neg /\ ~(y.k = "inf" /\ y.neg)
    ELSE IF y.k = "inf" THEN ~y.neg
    ELSE AlignedLess(x, y, Aligned(x, Min(x.e, y.e)), Aligned(y, Min(x.e, y.e)))

\* Math.round(x): floor(x + 0.5), computed exactly
\* q = floor(|x|); c compares twice the fraction of |x| with one
RoundFraction(x, q, c) ==
    Finite(x.neg, IF (IF x.neg THEN c > 0 ELSE c >= 0) THEN BAdd(q, <<1>>) ELSE q, 0)

RoundHalfUp(x, q) ==
    RoundFraction(x, q, BCmp(BMulSmall(BSub(x.m, BMul(q, Pow2(-x.e))), 2), Pow2(-x.e)))

MathRound(x) ==
    IF ~IsNum(x) \/ x.e >= 0 THEN x
    ELSE RoundHalfUp(x, BShrBits(x.m, -x.e))

\* Number.MAX_SAFE_INTEGER = 2^53 - 1 and Number.MIN_SAFE_INTEGER = -(2^53 - 1)
MAX_SAFE_INTEGER == Finite(FALSE, BSub(Pow2(PrecisionBits), <<1>>), 0)

MIN_SAFE_INTEGER == Finite(TRUE, BSub(Pow2(PrecisionBits), <<1>>), 0)

(***************************************************************************)
(* class Money                                                             *)
(***************************************************************************)
maxExponent == 6

errors ==
    [cannotParse  |-> "Your amount could not be parsed into a floating point number. Please pass an amount that can be parsed as a float.",
     numberTooBig |-> "Your numbers are too big to calculate safely."]

\* The values a caller passes: a number, a string, or a Money object.
Num(x) == [type |-> "number", num |-> x, str |-> <<>>, amount |-> NaN]

Str(t) == [type |-> "string", num |-> NaN, str |-> t, amount |-> NaN]

\* a Money object whose field `amount` holds x
Obj(x) == [type |-> "Money", num |-> NaN, str |-> <<>>, amount |-> x]

NoMoney == [type |-> "none", num |-> NaN, str |-> <<>>, amount |-> NaN]

\* How a call ends: it returns a Money object, or throws an Error.
Return(obj) == [threw |-> FALSE, error |-> "", money |-> obj]

Throw(message) == [threw |-> TRUE, error |-> message, money |-> NoMoney]

\* amount.toString() of a number or a string
AmountToString(amount) ==
    IF amount.type = "string" THEN amount.str ELSE NumberToString(amount.num)

\* new Money(amount)
\* if (isNaN(floatAmount)) throw ...; this.amount = floatAmount
Construct(floatAmount) ==
    IF isNaN(floatAmount) THEN Throw(errors.cannotParse)
    ELSE Return(Obj(floatAmount))

\* a variant of the constructor that reads the whole text, as Number() does
MoneyOfWholeText(amount) == Construct(StringToNumber(AmountToString(amount)))

Money(amount) == Construct(parseFloat(AmountToString(amount)))

\* Math.round(Number(`${num}e${maxExponent}`))
NormalizedInteger(num) ==
    MathRound(StringToNumber(NumberToString(num) \o <<"e">> \o NatToText(maxExponent)))

getNormalizedIntegerValues(numbers) ==
    [i \in DOMAIN numbers |-> NormalizedInteger(numbers[i])]

\* a variant of the guard that admits the two boundaries (<= and >=)
numberInClosedRange(number) ==
    ~FLt(MAX_SAFE_INTEGER, number) /\ ~FLt(number, MIN_SAFE_INTEGER) /\ IsNum(number)

\* number < Number.MAX_SAFE_INTEGER && number > Number.MIN_SAFE_INTEGER
numberInSafeIntegerRange(number) ==
    FLt(number, MAX_SAFE_INTEGER) /\ FLt(MIN_SAFE_INTEGER, number)

\* a variant of the promotion that wraps the parsed argument without constructing it
PromoteUnchecked(money) ==
    IF money.type # "Money" THEN Return(Obj(parseFloat(AmountToString(money))))
    ELSE Return(money)

\* if (!(money instanceof Money)) money = new Money(money)
Promote(money) == IF money.type # "Money" THEN Money(money) ELSE Return(money)

(***************************************************************************)
(* A method's effect: `this` and `that` are the receiver and the argument  *)
(* as the call leaves them (no method assigns to a field of either), and   *)
(* `out` is what the call returns or throws.                               *)
(***************************************************************************)
Effect(this, that, out) == [this |-> this, that |-> that, out |-> out]

\* if (!numberInSafeIntegerRange(sum)) throw ...; return new Money(`${sum}e-${maxExponent}`)
addResult(sum) ==
    IF ~numberInSafeIntegerRange(sum) THEN Throw(errors.numberTooBig)
    ELSE Money(Str(NumberToString(sum) \o <<"e", "-">> \o NatToText(maxExponent)))

addNormalized(amounts) == addResult(FAdd(amounts[1], amounts[2]))

\* money: the argument after `if (!(money instanceof Money)) money = new Money(money)`
addPromoted(this, money) ==
    IF money.threw THEN money
    ELSE addNormalized(getNormalizedIntegerValues(<<this.amount, money.money.amount>>))

\* a variant of add that adds the two amounts as doubles, without normalization
addAmounts(this, money) ==
    Effect(this, money,
           IF Promote(money).threw THEN Promote(money)
           ELSE Return(Obj(FAdd(this.amount, Promote(money).money.amount))))

add(this, money) == Effect(this, money, addPromoted(this, Promote(money)))

\* if (!numberInSafeIntegerRange(difference)) throw ...; return new Money(`${difference}e-${maxExponent}`)
subtractResult(difference) ==
    IF ~numberInSafeIntegerRange(difference) THEN Throw(errors.numberTooBig)
    ELSE Money(Str(NumberToString(difference) \o <<"e", "-">> \o NatToText(maxExponent)))

subtractNormalized(amounts) == subtractResult(FSub(amounts[1], amounts[2]))

\* money: the argument after `if (!(money instanceof Money)) money = new Money(money)`
subtractPromoted(this, money) ==
    IF money.threw THEN money
    ELSE subtractNormalized(getNormalizedIntegerValues(<<this.amount, money.money.amount>>))

\* a variant of subtract that subtracts the two amounts as doubles, without normalization
subtractAmounts(this, money) ==
    Effect(this, money,
           IF Promote(money).threw THEN Promote(money)
           ELSE Return(Obj(FSub(this.amount, Promote(money).money.amount))))

subtract(this, money) == Effect(this, money, subtractPromoted(this, Promote(money)))

\* if (!numberInSafeIntegerRange(product)) throw ...; return new Money(`${product}e-${maxExponent * 2}`)
multiplyResult(product) ==
    IF ~numberInSafeIntegerRange(product) THEN Throw(errors.numberTooBig)
    ELSE Money(Str(NumberToString(product) \o <<"e", "-">> \o NatToText(maxExponent * 2)))

multiplyNormalized(amounts) == multiplyResult(FMul(amounts[1], amounts[2]))

\* money: the argument after `if (!(money instanceof Money)) money = new Money(money)`
multiplyPromoted(this, money) ==
    IF money.threw THEN money
    ELSE multiplyNormalized(getNormalizedIntegerValues(<<this.amount, money.money.amount>>))

multiply(this, money) == Effect(this, money, multiplyPromoted(this, Promote(money)))

(***************************************************************************)
(* @sporkbytes/math-utils, the two functions index.ts imports.             *)
(***************************************************************************)
\* a percent given as a number or as a string (a string operand of * is read by Number())
ToNumber(v) == IF v.type = "string" THEN StringToNumber(v.str) ELSE v.num

\* calculatePercent(number, percent): number * percent / 100
calculatePercent(number, percent) == FDiv(FMul(number, ToNumber(percent)), Finite(FALSE, <<100>>, 0))

\* roundNumberToDigits(number, digits): Number(Math.round(`${number}e${digits}`) + `e-${digits}`)
roundNumberToDigits(number, digits) ==
    StringToNumber(
        NumberToString(MathRound(StringToNumber(
            NumberToString(number) \o <<"e">> \o NatToText(digits))))
        \o <<"e", "-">> \o NatToText(digits))

\* valueOf(precision = 2), toString(precision = 2): the argument may be left out
DefaultPrecision == 2

NoPrecision == [given |-> FALSE, n |-> 0]

Precision(n) == [given |-> TRUE, n |-> n]

PrecisionOf(precision) == IF precision.given THEN precision.n ELSE DefaultPrecision

\* a variant of valueOf that rounds the stored amount in place
valueOfRoundedInPlace(this, precision) ==
    [this |-> Obj(roundNumberToDigits(this.amount, PrecisionOf(precision))),
     num  |-> roundNumberToDigits(this.amount, PrecisionOf(precision)),
     text |-> <<>>]

valueOf(this, precision) ==
    [this |-> this, num |-> roundNumberToDigits(this.amount, PrecisionOf(precision)), text |-> <<>>]

toStringOf(v) == [this |-> v.this, num |-> NaN, text |-> NumberToString(v.num)]

toString(this, precision) == toStringOf(valueOf(this, precision))

\* a variant of addPercent that takes the percentage of the displayed value
addPercentOfDisplayed(this, percent) ==
    add(this, Num(calculatePercent(valueOf(this, NoPrecision).num, percent)))

\* const amountToAdd = calculatePercent(this.amount, percent); return this.add(amountToAdd)
addPercent(this, percent) == add(this, Num(calculatePercent(this.amount, percent)))

\* a variant of subtractPercent that adds the percentage
subtractPercentAdded(this, percent) ==
    add(this, Num(calculatePercent(this.amount, percent)))

\* const amountToSubtract = calculatePercent(this.amount, percent); return this.subtract(amountToSubtract)
subtractPercent(this, percent) == subtract(this, Num(calculatePercent(this.amount, percent)))

(***************************************************************************)
(* The calling program.  It holds the Money objects it has created in      *)
(* `heap`, in order of creation, and makes one call after another.  `last` *)
(* records the latest call: the method, the receiver's place in the heap,  *)
(* the argument as passed (and its place in the heap when it is a Money    *)
(* object), the heap as it was before the call, and what the call returned *)
(* or threw.  `calls` counts the calls made since the initial state.       *)
(***************************************************************************)
VARIABLES heap, last, calls

vars == <<heap, last, calls>>

\* the characters of a string
Text(s) == [i \in 1..Len(s) |-> SubSeq(s, i, i)]

\* a numeric literal in the caller's code
Literal(s) == Num(StringToNumber(Text(s)))

MaxCalls == 3

Literals(S) == { Literal(s) : s \in S }

Strings(S) == { Str(Text(s)) : s \in S }

\* what callers pass to new Money(...)
Inputs ==
    Literals({"0.125", "20", "9007199256", "4322982719.839522"})
    \cup Strings({"0.125", "12.5px", "randomString", "", "Infinity"})
    \cup {Num(NaN)}

\* what callers pass to add, subtract and multiply in place of a Money object
Operands == Literals({"0.2", "9007199255"}) \cup Strings({"0.125", "randomString"})

\* what callers pass to addPercent and subtractPercent
Percents == Literals({"50", "100", "33.333333333333336"}) \cup Strings({"25"})

\* what callers pass to valueOf and toString
Precisions == { NoPrecision, Precision(3) }

NoCall ==
    [op |-> "none", this |-> 0, arg |-> NoMoney, ref |-> 0, precision |-> NoPrecision,
     heap |-> <<>>, out |-> Return(NoMoney), num |-> NaN, text |-> <<>>]

Init ==
    /\ heap = <<>>
    /\ last = NoCall
    /\ calls = 0

\* the arguments of a call on heap[i]: a raw operand (j = 0) or the Money object heap[j]
Arguments(j) == IF j = 0 THEN Operands ELSE {heap[j]}

\* the heap after a call: heap[i] and heap[j] as the method left them, and the
\* Money object the call returned, if it returned one
HeapAfter(i, j, eff) ==
    [k \in DOMAIN heap |-> IF k = i THEN eff.this ELSE IF k = j THEN eff.that ELSE heap[k]]
    \o (IF eff.out.threw THEN <<>> ELSE <<eff.out.money>>)

\* the caller's state after a call of method op on heap[i] that had the effect eff
Called(op, i, j, arg, eff) ==
    /\ heap' = HeapAfter(i, j, eff)
    /\ last' = [NoCall EXCEPT !.op = op, !.this = i, !.arg = arg, !.ref = j,
                              !.heap = heap, !.out = eff.out]
    /\ calls' = calls + 1

\* the caller's state after valueOf or toString on heap[i]
Shown(op, i, precision, eff) ==
    /\ heap' = [heap EXCEPT ![i] = eff.this]
    /\ last' = [NoCall EXCEPT !.op = op, !.this = i, !.precision = precision,
                              !.heap = heap, !.num = eff.num, !.text = eff.text]
    /\ calls' = calls + 1

\* const m = new Money(amount)
New(amount) ==
    /\ calls < MaxCalls
    /\ Called("new", 0, 0, amount, Effect(NoMoney, NoMoney, Money(amount)))

\* heap[i].add(money), where money is heap[j] when j > 0
Add(i, j, money) ==
    /\ calls < MaxCalls
    /\ Called("add", i, j, money, add(heap[i], money))

Subtract(i, j, money) ==
    /\ calls < MaxCalls
    /\ Called("subtract", i, j, money, subtract(heap[i], money))

Multiply(i, j, money) ==
    /\ calls < MaxCalls
    /\ Called("multiply", i, j, money, multiply(heap[i], money))

AddPercent(i, percent) ==
    /\ calls < MaxCalls
    /\ Called("addPercent", i, 0, percent, addPercent(heap[i], percent))

SubtractPercent(i, percent) ==
    /\ calls < MaxCalls
    /\ Called("subtractPercent", i, 0, percent, subtractPercent(heap[i], percent))

\* +heap[i], or heap[i].valueOf(precision)
ValueOf(i, precision) ==
    /\ calls < MaxCalls
    /\ Shown("valueOf", i, precision, valueOf(heap[i], precision))

\* `${heap[i]}`, or heap[i].toString(precision)
CallToString(i, precision) ==
    /\ calls < MaxCalls
    /\ Shown("toString", i, precision, toString(heap[i], precision))

Next ==
    \/ \E amount \in Inputs : New(amount)
    \/ \E i \in DOMAIN heap : \E j \in 0..Len(heap) : \E money \in Arguments(j) : Add(i, j, money)
    \/ \E i \in DOMAIN heap : \E j \in 0..Len(heap) : \E money \in Arguments(j) : Subtract(i, j, money)
    \/ \E i \in DOMAIN heap : \E j \in 0..Len(heap) : \E money \in Arguments(j) : Multiply(i, j, money)
    \/ \E i \in DOMAIN heap : \E percent \in Percents : AddPercent(i, percent)
    \/ \E i \in DOMAIN heap : \E percent \in Percents : SubtractPercent(i, percent)
    \/ \E i \in DOMAIN heap : \E precision \in Precisions : ValueOf(i, precision)
    \/ \E i \in DOMAIN heap : \E precision \in Precisions : CallToString(i, precision)

Spec == Init /\ [][Next]_vars

(***************************************************************************)
(* A caller that holds two Money objects and combines the first with the   *)
(* second.  The amounts are chosen at the edges of the safe integer range  *)
(* (2^53 - 1 = 9007199254740991), around the float errors the class is     *)
(* meant to remove, and where Number::toString changes to exponent form.   *)
(***************************************************************************)
MaxPairCalls == 1

Amounts ==
    Literals({"0", "1", "0.1", "0.2", "0.3", "25.9", "6.475", "12.2345", "12.2454",
              "-0.75", "0.000001", "0.0000001", "0.1234567", "1.0000005", "-1.0000005",
              "9007199254", "-9007199254", "9007199255", "9007199256",
              "9007199254.740993", "0.740991", "-0.740991", "0.74099",
              "441.650591", "20.394401", "1e21", "-1e21"})

PairInit ==
    /\ \E a \in Amounts : \E b \in Amounts : heap = <<Money(a).money, Money(b).money>>
    /\ last = NoCall
    /\ calls = 0

PairNext ==
    \/ calls < MaxPairCalls /\ Add(1, 2, heap[2])
    \/ calls < MaxPairCalls /\ Subtract(1, 2, heap[2])
    \/ calls < MaxPairCalls /\ Multiply(1, 2, heap[2])

PairSpec == PairInit /\ [][PairNext]_vars

(***************************************************************************)
(* A caller that holds two Money objects and keeps adding the second to,   *)
(* or subtracting it from, any object it holds: heap[1].add(heap[2]) and   *)
(* then .subtract(heap[2]) on what that returned, as in the tests'         *)
(* `new Money(12.2345).add(new Money(12.2454))`.  The amounts include      *)
(* values on both sides of 2^33 = 8589934592, where neighbouring doubles   *)
(* come to lie more than 10^-6 apart.                                      *)
(***************************************************************************)
MaxChainCalls == 2

ChainAmounts ==
    Literals({"0", "0.1", "0.2", "0.3", "12.2345", "12.2454", "-0.75", "0.000001",
              "4322982719.839522", "8589934591.999999", "9007199255", "9007199256"})

ChainInit ==
    /\ \E a \in ChainAmounts : \E b \in ChainAmounts :
           heap = <<Money(a).money, Money(b).money>>
    /\ last = NoCall
    /\ calls = 0

ChainNext ==
    \/ \E i \in DOMAIN heap : calls < MaxChainCalls /\ Add(i, 2, heap[2])
    \/ \E i \in DOMAIN heap : calls < MaxChainCalls /\ Subtract(i, 2, heap[2])

ChainSpec == ChainInit /\ [][ChainNext]_vars

(***************************************************************************)
(* Exact arithmetic for stating the properties: an integer is a sign and a *)
(* magnitude of any size, and a double with a short decimal numeral is     *)
(* read as that decimal.                                                   *)
(***************************************************************************)
SInt(neg, mag) == [neg |-> neg /\ mag # <<>>, mag |-> mag]

SAdd(y, z) ==
    IF y.neg = z.neg THEN SInt(y.neg, BAdd(y.mag, z.mag))
    ELSE IF BLt(y.mag, z.mag) THEN SInt(z.neg, BSub(z.mag, y.mag))
    ELSE SInt(y.neg, BSub(y.mag, z.mag))

SSub(y, z) == SAdd(y, SInt(~z.neg, z.mag))

SMul(y, z) == SInt(y.neg # z.neg, BMul(y.mag, z.mag))

Combined(op, y, z) ==
    IF op = "add" THEN SAdd(y, z) ELSE IF op = "subtract" THEN SSub(y, z) ELSE SMul(y, z)

\* 2^53 - 1
SafeBound == BSub(Pow2(53), <<1>>)

\* MIN_SAFE_INTEGER < z < MAX_SAFE_INTEGER
StrictlyInside(z) == BLt(z.mag, SafeBound)

\* the integer an integer-valued double holds
IntegerOf(x) == SInt(x.neg, IntMagnitude(x))

\* the number of digits after the decimal point in the numeral of a finite double
FractionDigits(x) ==
    IF x.m = <<>> THEN 0
    ELSE LET sd == ShortestDigits(x) IN Max(0, Len(sd.s) - sd.n)

\* the numeral of a finite double of at most 6 fraction digits, times 10^6
ScaledInteger(x) ==
    IF x.m = <<>> THEN SInt(FALSE, <<>>)
    ELSE LET sd == ShortestDigits(x)
         IN  SInt(x.neg, BMulPow10(TextToB(sd.s), sd.n - Len(sd.s) + 6))

\* the double that the decimal z * 10^-digits denotes
Rescaled(z, digits) == DecimalToDouble(z.neg, z.mag, -digits)

IsArithmetic(op) == op \in {"add", "subtract", "multiply"}

\* the amounts of the receiver and of the Money operand of the latest call
ThisAmount == last.heap[last.this].amount

ThatAmount == last.heap[last.ref].amount

\* both amounts are finite and have at most 6 fraction digits
SixDigitOperands ==
    /\ IsNum(ThisAmount) /\ FractionDigits(ThisAmount) <= 6
    /\ IsNum(ThatAmount) /\ FractionDigits(ThatAmount) <= 6

RangeError == last.out.threw /\ last.out.error = errors.numberTooBig

ParseError == last.out.threw /\ last.out.error = errors.cannotParse

\* the latest call returned a new Money object, now the newest of the heap
Returned ==
    /\ ~last.out.threw
    /\ heap = Append(last.heap, last.out.money)

\* the latest call threw and no Money object came into being
Failed ==
    /\ last.out.threw
    /\ last.out.money = NoMoney
    /\ heap = last.heap

(***************************************************************************)
(* C1.  For add, subtract and multiply, with a and b the integers that     *)
(* getNormalizedIntegerValues returns for the two operands: the call       *)
(* throws the "too big to calculate safely" error exactly when the exact   *)
(* integer a + b, a - b or a * b is not strictly between -(2^53 - 1) and   *)
(* 2^53 - 1 (a normalization that is not a number is not inside the        *)
(* interval either); a combination equal to a boundary is rejected; and a  *)
(* call that throws constructs no Money object.                            *)
(***************************************************************************)
C1_RangeErrorIffOutside ==
    (IsArithmetic(last.op) /\ last.ref > 0) =>
        LET n == getNormalizedIntegerValues(<<ThisAmount, ThatAmount>>)
            inside == /\ IsInteger(n[1])
                      /\ IsInteger(n[2])
                      /\ StrictlyInside(Combined(last.op, IntegerOf(n[1]), IntegerOf(n[2])))
        IN  /\ RangeError <=> ~inside
            /\ ~inside => Failed
            /\ inside => Returned

\* a sum, a difference or a product that is exactly 2^53 - 1 has been rejected
C1_BoundaryRejected ==
    /\ IsArithmetic(last.op) /\ last.ref > 0
    /\ LET n == getNormalizedIntegerValues(<<ThisAmount, ThatAmount>>)
       IN  /\ IsInteger(n[1]) /\ IsInteger(n[2])
           /\ Combined(last.op, IntegerOf(n[1]), IntegerOf(n[2])).mag = SafeBound
    /\ RangeError
    /\ heap = last.heap

\* the decimals of both amounts, times 10^6, lie strictly inside the safe range
OperandsInsideRange ==
    /\ StrictlyInside(ScaledInteger(ThisAmount))
    /\ StrictlyInside(ScaledInteger(ThatAmount))

\* the exact combination of the two scaled decimals
ScaledCombination == Combined(last.op, ScaledInteger(ThisAmount), ScaledInteger(ThatAmount))

(***************************************************************************)
(* C2, as amended.  For Money objects a and b whose amounts have at most   *)
(* 6 fraction digits, whose scaled integers a*10^6 and b*10^6 each lie     *)
(* strictly inside the safe integer range, and whose scaled sum lies       *)
(* strictly inside it too, a.add(b) returns a Money object whose amount is *)
(* the double of the exact decimal sum (a*10^6 + b*10^6) * 10^-6.          *)
(***************************************************************************)
C2_AddIsExactForSafeOperands ==
    (/\ last.op = "add" /\ last.ref > 0
     /\ SixDigitOperands
     /\ OperandsInsideRange
     /\ StrictlyInside(ScaledCombination))
    => /\ Returned
       /\ last.out.money.amount = Rescaled(ScaledCombination, 6)

\* 0.1 + 0.2 has returned 0.3, which the sum of the two doubles is not
C2_AddRemovesFloatError ==
    /\ last.op = "add" /\ last.ref > 0
    /\ ThisAmount = Literal("0.1").num
    /\ ThatAmount = Literal("0.2").num
    /\ Returned
    /\ last.out.money.amount = Literal("0.3").num
    /\ last.out.money.amount # FAdd(ThisAmount, ThatAmount)

(***************************************************************************)
(* C2, as stated.  For Money objects a and b whose amounts have at most 6  *)
(* fraction digits and whose scaled sum a*10^6 + b*10^6 lies strictly      *)
(* inside the safe integer range, a.add(b) returns a Money object whose    *)
(* amount is exactly the decimal sum a + b.                                *)
(***************************************************************************)
C2_AddIsExactAsStated ==
    (/\ last.op = "add" /\ last.ref > 0
     /\ SixDigitOperands
     /\ StrictlyInside(ScaledCombination))
    => /\ Returned
       /\ last.out.money.amount = Rescaled(ScaledCombination, 6)

(***************************************************************************)
(* C3, as amended.  For Money objects a and b whose amounts have at most   *)
(* 6 fraction digits, whose scaled integers a*10^6 and b*10^6 each lie     *)
(* strictly inside the safe integer range, and whose scaled difference     *)
(* lies strictly inside it too, a.subtract(b) returns a Money object whose *)
(* amount is the double of the exact decimal difference                    *)
(* (a*10^6 - b*10^6) * 10^-6, at full precision.                           *)
(***************************************************************************)
C3_SubtractIsExactForSafeOperands ==
    (/\ last.op = "subtract" /\ last.ref > 0
     /\ SixDigitOperands
     /\ OperandsInsideRange
     /\ StrictlyInside(ScaledCombination))
    => /\ Returned
       /\ last.out.money.amount = Rescaled(ScaledCombination, 6)

\* 25.9 - 6.475 has returned 19.425, which the difference of the two doubles is not
C3_SubtractRemovesFloatError ==
    /\ last.op = "subtract" /\ last.ref > 0
    /\ ThisAmount = Literal("25.9").num
    /\ ThatAmount = Literal("6.475").num
    /\ Returned
    /\ last.out.money.amount = Literal("19.425").num
    /\ last.out.money.amount # FSub(ThisAmount, ThatAmount)

(***************************************************************************)
(* C3, as stated.  For Money objects a and b whose amounts have at most 6  *)
(* fraction digits and whose scaled difference a*10^6 - b*10^6 lies        *)
(* strictly inside the safe integer range, a.subtract(b) returns a Money   *)
(* object whose amount is exactly the decimal difference a - b.            *)
(***************************************************************************)
C3_SubtractIsExactAsStated ==
    (/\ last.op = "subtract" /\ last.ref > 0
     /\ SixDigitOperands
     /\ StrictlyInside(ScaledCombination))
    => /\ Returned
       /\ last.out.money.amount = Rescaled(ScaledCombination, 6)

(***************************************************************************)
(* C4, as stated.  For Money objects a and b whose amounts have at most 6  *)
(* fraction digits and whose product of scaled integers                    *)
(* (a*10^6) * (b*10^6) lies strictly inside the safe integer range,        *)
(* a.multiply(b) returns a Money object whose amount is exactly the        *)
(* decimal product a * b, the integer product rescaled by 10^-12.          *)
(***************************************************************************)
C4_MultiplyIsExactAsStated ==
    (/\ last.op = "multiply" /\ last.ref > 0
     /\ SixDigitOperands
     /\ StrictlyInside(ScaledCombination))
    => /\ Returned
       /\ last.out.money.amount = Rescaled(ScaledCombination, 12)

\* the lengths of the prefixes of a text that Number() reads as a number
NumeralPrefixes(t) ==
    { n \in 1..Len(t) : ~IsWhiteSpace(t[n]) /\ ~isNaN(StringToNumber(SubSeq(t, 1, n))) }

Longest(P) == CHOOSE n \in P : \A m \in P : m <= n

(***************************************************************************)
(* C5.  new Money(amount), for a number or a string, succeeds exactly when *)
(* the text of the argument starts with a decimal numeral: with no such    *)
(* prefix (the empty string, "randomString", NaN) it throws the "could not *)
(* be parsed" error and no Money object comes into being; otherwise the    *)
(* amount is the number that the longest such prefix denotes, unrounded,   *)
(* so that a number constructs an object with that very number as amount,  *)
(* and 0.125 and "0.125" construct equal amounts.                          *)
(***************************************************************************)
C5_ConstructionParsesLeadingNumeral ==
    last.op = "new" =>
        LET t == AmountToString(last.arg)
            P == NumeralPrefixes(t)
        IN  /\ P = {} => ParseError /\ Failed
            /\ P # {} => /\ Returned
                         /\ last.out.money.amount = StringToNumber(SubSeq(t, 1, Longest(P)))
            /\ (last.arg.type = "number" /\ ~isNaN(last.arg.num))
               => Returned /\ last.out.money.amount = last.arg.num
            /\ last.arg \in {Str(<<>>), Str(Text("randomString")), Num(NaN)}
               => ParseError /\ Failed
            /\ last.arg \in {Literal("0.125"), Str(Text("0.125"))}
               => Returned /\ last.out.money.amount = Finite(FALSE, <<1>>, -3)

\* new Money("12.5px") has constructed a Money object of amount 12.5
C5_PrefixConstructed ==
    /\ last.op = "new"
    /\ last.arg = Str(Text("12.5px"))
    /\ Returned
    /\ last.out.money.amount = Literal("12.5").num

(***************************************************************************)
(* C6, as stated.  In every reachable state the amount of every Money      *)
(* object is a finite number, neither NaN nor infinite: a construction     *)
(* that would produce another value throws instead.                        *)
(***************************************************************************)
C6_AmountsAreFiniteAsStated == \A k \in DOMAIN heap : IsNum(heap[k].amount)

(***************************************************************************)
(* C7.  No call changes a Money object that exists: after valueOf,         *)
(* toString, add, subtract, multiply, addPercent or subtractPercent,       *)
(* whether it returned or threw, every object held before the call has the *)
(* amount it had; an arithmetic call that returns adds one new object and  *)
(* one that throws adds none; valueOf and toString return the rounding of  *)
(* the unrounded amount to the given precision, 2 when none is given, and  *)
(* the same call made again returns the same.                              *)
(***************************************************************************)
C7_CallsLeaveAmountsUnchanged ==
    (last.op # "none") =>
        /\ Len(heap) >= Len(last.heap)
        /\ \A k \in DOMAIN last.heap : heap[k] = last.heap[k]
        /\ last.op \in {"valueOf", "toString"} =>
              LET this == last.heap[last.this]
                  rounded == roundNumberToDigits(this.amount,
                                 IF last.precision.given THEN last.precision.n ELSE 2)
              IN  /\ heap = last.heap
                  /\ last.op = "valueOf" =>
                        /\ last.num = rounded
                        /\ valueOf(heap[last.this], last.precision).num = last.num
                  /\ last.op = "toString" =>
                        /\ last.text = NumberToString(rounded)
                        /\ toString(heap[last.this], last.precision).text = last.text
                  /\ (this.amount = Literal("0.125").num /\ ~last.precision.given) =>
                        /\ last.op = "valueOf" => last.num = Literal("0.13").num
                        /\ last.op = "toString" => last.text = Text("0.13")
        /\ last.op \notin {"valueOf", "toString"} => Returned \/ Failed

\* new Money(0.125).valueOf() has returned 0.13 and the amount is still 0.125
C7_RoundedCopyReturned ==
    /\ last.op = "valueOf"
    /\ ~last.precision.given
    /\ last.num = Literal("0.13").num
    /\ heap = last.heap
    /\ heap[last.this].amount = Literal("0.125").num

(***************************************************************************)
(* C8, as stated.  Every add, subtract or multiply in which the scaled     *)
(* integer (the value times 10^6) of either operand lies outside the safe  *)
(* integer range throws the range error, whatever the other operand and    *)
(* the operation, also when the combination is inside the range.           *)
(***************************************************************************)
C8_OutOfRangeOperandFailsAsStated ==
    (/\ IsArithmetic(last.op) /\ last.ref > 0
     /\ SixDigitOperands
     /\ ~OperandsInsideRange)
    => RangeError

\* what the method named op does with a receiver and an argument
Outcome(op, this, money) ==
    IF op \in {"add", "addPercent"} THEN add(this, money).out
    ELSE IF op \in {"subtract", "subtractPercent"} THEN subtract(this, money).out
    ELSE multiply(this, money).out

(***************************************************************************)
(* C9.  a.add(x), a.subtract(x) and a.multiply(x) with a raw number or     *)
(* string x end as the same call with new Money(x) does: the same amount   *)
(* or the same error; and when x cannot be parsed the call throws the      *)
(* parse error, not the range error, and returns nothing, also when a is   *)
(* itself out of range.                                                    *)
(***************************************************************************)
C9_RawOperandIsConstructedFirst ==
    (IsArithmetic(last.op) /\ last.ref = 0) =>
        LET this == last.heap[last.this]
            constructed == Money(last.arg)
        IN  /\ constructed.threw => ParseError /\ Failed
            /\ ~constructed.threw =>
                  /\ last.out = Outcome(last.op, this, constructed.money)
                  /\ Returned \/ (RangeError /\ Failed)
            /\ last.arg = Str(Text("randomString")) => ParseError /\ Failed
            /\ (this.amount = Literal("20").num /\ last.arg = Literal("0.2")) =>
                  /\ Returned
                  /\ last.out.money.amount =
                        Literal(IF last.op = "add" THEN "20.2"
                                ELSE IF last.op = "subtract" THEN "19.8" ELSE "4").num

\* new Money(9007199256).add("randomString") has thrown the parse error
C9_ParseErrorBeforeRangeError ==
    /\ IsArithmetic(last.op)
    /\ last.ref = 0
    /\ last.heap[last.this].amount = Literal("9007199256").num
    /\ last.arg = Str(Text("randomString"))
    /\ ParseError
    /\ heap = last.heap

(***************************************************************************)
(* C10.  a.addPercent(p) ends as a.add(d) and a.subtractPercent(p) as      *)
(* a.subtract(d), where d = a.amount * p / 100 is computed from the        *)
(* unrounded amount: the same amount, or the same range error.             *)
(* new Money(20).addPercent(50) has the amount 30 and                      *)
(* new Money(0.125).addPercent(50) the amount 0.1875.                      *)
(***************************************************************************)
C10_PercentDelegatesToAddAndSubtract ==
    (last.op \in {"addPercent", "subtractPercent"}) =>
        LET this == last.heap[last.this]
            p == IF last.arg.type = "string" THEN StringToNumber(last.arg.str)
                 ELSE last.arg.num
            d == FDiv(FMul(this.amount, p), Literal("100").num)
        IN  /\ last.out = Outcome(last.op, this, Num(d))
            /\ Returned \/ (RangeError /\ Failed)
            /\ (last.op = "addPercent" /\ last.arg = Literal("50")) =>
                  /\ this.amount = Literal("20").num =>
                        Returned /\ last.out.money.amount = Literal("30").num
                  /\ this.amount = Literal("0.125").num =>
                        Returned /\ last.out.money.amount = Literal("0.1875").num
                  /\ this.amount = Literal("9007199256").num => RangeError
            /\ (last.op = "subtractPercent" /\ last.arg = Str(Text("25"))
                /\ this.amount = Literal("20").num) =>
                  Returned /\ last.out.money.amount = Literal("15").num

\* new Money(0.125).addPercent(50) has returned a Money object of amount 0.1875
C10_PercentOfUnroundedAmount ==
    /\ last.op = "addPercent"
    /\ last.heap[last.this].amount = Literal("0.125").num
    /\ last.arg = Literal("50")
    /\ Returned
    /\ last.out.money.amount = Literal("0.1875").num

\* p * 100 / (100 + p), as a caller computes the percentage that undoes p
InversePercent(p) == FDiv(FMul(p, Literal("100").num), FAdd(Literal("100").num, p))

Abs(x) == [x EXCEPT !.neg = FALSE]

\* |x - y| <= 0.005, half a unit of the second decimal place
WithinDisplayTolerance(x, y) == ~FLt(Literal("0.005").num, Abs(FSub(x, y)))

Below(x, bound) == FLt(Abs(x), Literal(bound).num)

\* the latest call was v.addPercent(p).subtractPercent(p * 100 / (100 + p)) for
\* the Money object v = held[k] and the number p, and it returned
UndoesPercent(k, p) ==
    /\ last.op = "subtractPercent"
    /\ last.arg.type = "number"
    /\ p.type = "number"
    /\ last.arg.num = InversePercent(p.num)
    /\ addPercent(last.heap[k], p).out = Return(last.heap[last.this])
    /\ Returned

\* the two amounts and the two deltas of such a chain have at most 6 fraction digits
SixDigitChain(k, p) ==
    /\ FractionDigits(last.heap[k].amount) <= 6
    /\ FractionDigits(calculatePercent(last.heap[k].amount, p)) <= 6
    /\ FractionDigits(calculatePercent(ThisAmount, last.arg)) <= 6

\* the two amounts and the two deltas of such a chain are below the bound in magnitude
ChainBelow(k, p, bound) ==
    /\ Below(last.heap[k].amount, bound)
    /\ Below(ThisAmount, bound)
    /\ Below(calculatePercent(last.heap[k].amount, p), bound)
    /\ Below(calculatePercent(ThisAmount, last.arg), bound)

PlainNumeral(x) ==
    \/ x.m = <<>>
    \/ LET n == ShortestDigits(x).n IN -6 < n /\ n <= 21

\* the integer nearest to the numeral of the finite double x times 10^6, a half
\* rounded away from zero
NearestScaledInteger(x) ==
    IF x.m = <<>> THEN SInt(FALSE, <<>>)
    ELSE LET sd == ShortestDigits(x)
             S == TextToB(sd.s)
             E == sd.n - Len(sd.s) + 6
         IN  SInt(x.neg,
                  IF E >= 0 THEN BMulPow10(S, E)
                  ELSE BDivSmall(BDivPow10(BAdd(BMulSmall(S, 2), BMulPow10(<<1>>, -E)),
                                           -E).q, 2).q)

\* the amounts of the receiver and of the operand of the latest arithmetic call
LatestAmounts ==
    IF IsArithmetic(last.op) /\ last.ref > 0 THEN {ThisAmount, ThatAmount} ELSE {}

(***************************************************************************)
(* C12, as stated.  The normalization of an amount x is the integer        *)
(* nearest to x * 10^6, an exact half rounded up on magnitude for negative *)
(* amounts as for positive ones (1.0000005 gives 1000001 and -1.0000005    *)
(* gives -1000001), so that the normalization of -x is minus that of x.    *)
(* (Stated for the amounts that Number::toString writes without an         *)
(* exponent and whose nearest integer is inside the safe integer range.)   *)
(***************************************************************************)
C12_NormalizationRoundsHalfUpOnMagnitudeAsStated ==
    \A x \in LatestAmounts :
        (IsNum(x) /\ PlainNumeral(x) /\ StrictlyInside(NearestScaledInteger(x))) =>
            /\ IsInteger(NormalizedInteger(x))
            /\ IntegerOf(NormalizedInteger(x)) = NearestScaledInteger(x)
            /\ x.m # <<>> => NormalizedInteger(FNeg(x)) = FNeg(NormalizedInteger(x))

(***************************************************************************)
(* C13, as stated.  Normalization yields round(amount * 10^6) also for an  *)
(* amount of magnitude below 10^-6 or of at least 10^21, so that an add,   *)
(* subtract or multiply throws the range error only when the combination   *)
(* of round(a * 10^6) and round(b * 10^6) is outside the open safe integer *)
(* range and returns a Money object whenever it is inside.  (Stated for    *)
(* the calls in which one of the two amounts has such a magnitude.)        *)
(***************************************************************************)
C13_NormalizationOfEveryMagnitudeAsStated ==
    (/\ IsArithmetic(last.op) /\ last.ref > 0
     /\ IsNum(ThisAmount) /\ IsNum(ThatAmount)
     /\ ~(PlainNumeral(ThisAmount) /\ PlainNumeral(ThatAmount)))
    => /\ \A x \in LatestAmounts :
             /\ IsInteger(NormalizedInteger(x))
             /\ IntegerOf(NormalizedInteger(x)) = NearestScaledInteger(x)
       /\ RangeError =>
             ~StrictlyInside(Combined(last.op, NearestScaledInteger(ThisAmount),
                                      NearestScaledInteger(ThatAmount)))
       /\ StrictlyInside(Combined(last.op, NearestScaledInteger(ThisAmount),
                                  NearestScaledInteger(ThatAmount)))
          => Returned


(***************************************************************************)
(* C14.  a.add(b).subtract(b) and a.subtract(b).add(b).  The latest call   *)
(* undoes a first call on heap[k] when its receiver is what the inverse    *)
(* method returns for heap[k] and the same operand.                        *)
(***************************************************************************)
InverseOp == IF last.op = "subtract" THEN "add" ELSE "subtract"

Undoes(k) ==
    /\ last.op \in {"add", "subtract"} /\ last.ref > 0
    /\ Outcome(InverseOp, last.heap[k], last.heap[last.ref]) = Return(last.heap[last.this])

\* the integer the first call of the chain combines to
Intermediate(k) ==
    Combined(InverseOp, ScaledInteger(last.heap[k].amount), ScaledInteger(ThatAmount))

SixDigitPair(k) ==
    /\ FractionDigits(last.heap[k].amount) <= 6
    /\ FractionDigits(ThatAmount) <= 6

\* |z| < 2^33 * 10^6: the amount z * 10^-6 is below 2^33 = 8589934592
BelowTwoTo33(z) == BLt(z.mag, BMulPow10(Pow2(33), 6))

\* C14, as stated and read in the code's favour (a and b are themselves
\* inside the safe range): for amounts a and b of at most 6 fraction digits
\* whose intermediate combined integer is inside the safe range, the second
\* call of a.add(b).subtract(b) and of a.subtract(b).add(b) returns a Money
\* whose amount is exactly a's.
C14_AddAndSubtractAreInversesAsStated ==
    \A k \in DOMAIN last.heap :
        (/\ Undoes(k)
         /\ SixDigitPair(k)
         /\ StrictlyInside(ScaledInteger(last.heap[k].amount))
         /\ StrictlyInside(ScaledInteger(ThatAmount))
         /\ StrictlyInside(Intermediate(k)))
        => /\ Returned
           /\ last.out.money.amount = last.heap[k].amount

\* C14, below 2^33: when a, b and the intermediate amount are all below
\* 8589934592 in magnitude, the second call of the chain returns a Money
\* whose amount is exactly a's.
C14_AddAndSubtractAreInversesBelowTwoTo33 ==
    \A k \in DOMAIN last.heap :
        (/\ Undoes(k)
         /\ SixDigitPair(k)
         /\ BelowTwoTo33(ScaledInteger(last.heap[k].amount))
         /\ BelowTwoTo33(ScaledInteger(ThatAmount))
         /\ BelowTwoTo33(Intermediate(k)))
        => /\ Returned
           /\ last.out.money.amount = last.heap[k].amount

\* C14, the chain of the tests: 12.2345 + 12.2454 = 24.4799, and
\* 24.4799 - 12.2454 returns 12.2345.
C14_ChainOfTheTests ==
    /\ Undoes(1) /\ last.op = "subtract" /\ Returned
    /\ last.heap[1].amount = Literal("12.2345").num
    /\ ThatAmount = Literal("12.2454").num
    /\ ThisAmount = Literal("24.4799").num
    /\ last.out.money.amount = Literal("12.2345").num

=============================================================================
